---------------------------- MODULE Spec2Model ----------------------------
(***************************************************************************)
(* Model of setup.py of pylaunchagent: the module body reads README.md    *)
(* with readme(), reads requirements/requirements.txt with requirements() *)
(* and hands the keyword arguments to setuptools.setup().                 *)
(*                                                                         *)
(* A file is a sequence of characters.  Both files are opened with the    *)
(* built-in open(path): mode "r", text mode, newline=None, so the text    *)
(* layer translates "\r\n" and a lone "\r" to "\n" on reading.            *)
(***************************************************************************)
EXTENDS Naturals, Sequences, FiniteSets

VARIABLES fs, pc, handles, exc, ret, kwargs, descriptor, log, history

vars == <<fs, pc, handles, exc, ret, kwargs, descriptor, log, history>>

----------------------------------------------------------------------------
(* Bounds *)

MaxLen == 3

MaxRuns == 2

MaxLenFair == 2

----------------------------------------------------------------------------
(* Files and their contents *)

LF == "\n"

CR == "\r"

Chars == {"a", LF, CR}

Contents == UNION {[1..n -> Chars] : n \in 0..MaxLen}

README == "README.md"

REQUIREMENTS == "requirements/requirements.txt"

Paths == {README, REQUIREMENTS}

\* A path names no file ("absent"), a file the process may not read
\* ("denied"), a file whose bytes are not valid in the default encoding
\* ("garbled"), or a readable text file with the given characters.
FileStates ==
    {[status |-> s, data |-> <<>>] : s \in {"absent", "denied", "garbled"}}
        \cup {[status |-> "ok", data |-> d] : d \in Contents}

NoError == "none"

----------------------------------------------------------------------------
(* The built-in open() and the text layer *)

ReadmeMode == "r"

RequirementsModeTruncating == "w+"

RequirementsMode == "r"

\* open(path, mode): the error it raises, or NoError.
OpenError(f, path, mode) ==
    IF f[path].status = "denied" THEN "PermissionError"
    ELSE IF f[path].status = "absent" /\ mode \in {"r", "r+"}
         THEN "FileNotFoundError"
    ELSE NoError

\* open(path, mode): what a successful open does to the file system.
OpenEffect(f, path, mode) ==
    IF mode \in {"w", "w+"}
    THEN [f EXCEPT ![path] = [status |-> "ok", data |-> <<>>]]
    ELSE f

\* f.read() / f.readline() decoding: the error it raises, or NoError.
ReadError(f, path) ==
    IF f[path].status = "garbled" THEN "UnicodeDecodeError" ELSE NoError

TranslateNone(s) == s

\* Universal newlines (newline=None): "\r\n" and a lone "\r" are read as "\n".
RECURSIVE Translate(_)
Translate(s) ==
    IF s = <<>> THEN <<>>
    ELSE IF Head(s) = CR
         THEN IF Len(s) > 1 /\ s[2] = LF
              THEN <<LF>> \o Translate(SubSeq(s, 3, Len(s)))
              ELSE <<LF>> \o Translate(Tail(s))
    ELSE <<Head(s)>> \o Translate(Tail(s))

\* f.readline() on decoded text t: up to and including the first "\n".
Readline(t) ==
    IF \E i \in 1..Len(t) : t[i] = LF
    THEN SubSeq(t, 1, CHOOSE i \in 1..Len(t) :
                          t[i] = LF /\ \A j \in 1..(i - 1) : t[j] # LF)
    ELSE t

RECURSIVE ReadlinesSkipBlank(_)
ReadlinesSkipBlank(t) ==
    IF t = <<>> THEN <<>>
    ELSE LET l == Readline(t)
             rest == ReadlinesSkipBlank(SubSeq(t, Len(l) + 1, Len(t)))
         IN  IF l = <<LF>> THEN rest ELSE <<l>> \o rest

\* f.readlines() on decoded text t: readline() until the text is exhausted.
RECURSIVE Readlines(_)
Readlines(t) ==
    IF t = <<>> THEN <<>>
    ELSE LET l == Readline(t)
         IN  <<l>> \o Readlines(SubSeq(t, Len(l) + 1, Len(t)))

----------------------------------------------------------------------------
(* Control flow of the module body *)

ArgOrderSwapped == <<"requirements", "readme">>

\* Keyword arguments of setup(...) that call a function, in evaluation order.
ArgOrder == <<"readme", "requirements">>

EntryPc(fn) == IF fn = "readme" THEN "readme_open" ELSE "requirements_open"

\* Where control goes when the call of fn has returned its value.
NextAfter(fn) ==
    LET i == CHOOSE k \in 1..Len(ArgOrder) : ArgOrder[k] = fn
    IN  IF i = Len(ArgOrder) THEN "setup" ELSE EntryPc(ArgOrder[i + 1])

Terminated == pc \in {"built", "aborted"}

NoKwargs == [long_description |-> <<>>, install_requires |-> <<>>]

Entry(op, path, mode) == [op |-> op, path |-> path, mode |-> mode]

Init ==
    /\ fs \in [Paths -> FileStates]
    /\ pc = "start"
    /\ handles = {}
    /\ exc = NoError
    /\ ret = <<>>
    /\ kwargs = NoKwargs
    /\ descriptor = <<>>
    /\ log = <<>>
    /\ history = <<>>

\* import, the two defs, and the literal arguments before the first call.
ModuleBody ==
    /\ pc = "start"
    /\ pc' = EntryPc(ArgOrder[1])
    /\ UNCHANGED <<fs, handles, exc, ret, kwargs, descriptor, log, history>>

----------------------------------------------------------------------------
(* readme() *)

ReadmeOpenSwallow ==
    /\ pc = "readme_open"
    /\ log' = Append(log, Entry("open", README, ReadmeMode))
    /\ IF OpenError(fs, README, ReadmeMode) # NoError
       THEN /\ pc' = "readme_return"
            /\ ret' = <<<<>>>>
            /\ UNCHANGED <<fs, handles, exc>>
       ELSE /\ fs' = OpenEffect(fs, README, ReadmeMode)
            /\ handles' = handles \cup {README}
            /\ pc' = "readme_read"
            /\ UNCHANGED <<exc, ret>>
    /\ UNCHANGED <<kwargs, descriptor, history>>

\* with open("README.md") as f: a failing open() raises out of readme() and
\* out of the module body.
ReadmeOpen ==
    /\ pc = "readme_open"
    /\ log' = Append(log, Entry("open", README, ReadmeMode))
    /\ IF OpenError(fs, README, ReadmeMode) # NoError
       THEN /\ exc' = OpenError(fs, README, ReadmeMode)
            /\ pc' = "aborted"
            /\ UNCHANGED <<fs, handles>>
       ELSE /\ fs' = OpenEffect(fs, README, ReadmeMode)
            /\ handles' = handles \cup {README}
            /\ pc' = "readme_read"
            /\ UNCHANGED exc
    /\ UNCHANGED <<ret, kwargs, descriptor, history>>

\* f.read(): the value of the return expression, or the exception it raises.
ReadmeRead ==
    /\ pc = "readme_read"
    /\ log' = Append(log, Entry("read", README, ReadmeMode))
    /\ IF ReadError(fs, README) # NoError
       THEN exc' = ReadError(fs, README) /\ UNCHANGED ret
       ELSE ret' = <<Translate(fs[README].data)>> /\ UNCHANGED exc
    /\ pc' = "readme_exit"
    /\ UNCHANGED <<fs, handles, kwargs, descriptor, history>>

ReadmeExitLeak ==
    /\ pc = "readme_exit"
    /\ IF exc # NoError
       THEN UNCHANGED <<handles, log>>
       ELSE /\ handles' = handles \ {README}
            /\ log' = Append(log, Entry("close", README, ReadmeMode))
    /\ pc' = "readme_return"
    /\ UNCHANGED <<fs, exc, ret, kwargs, descriptor, history>>

\* Leaving the with block, normally or by exception: f.__exit__ closes f.
ReadmeExit ==
    /\ pc = "readme_exit"
    /\ handles' = handles \ {README}
    /\ log' = Append(log, Entry("close", README, ReadmeMode))
    /\ pc' = "readme_return"
    /\ UNCHANGED <<fs, exc, ret, kwargs, descriptor, history>>

\* readme() returns to the setup(...) call, or its exception leaves the
\* module body.
ReadmeReturn ==
    /\ pc = "readme_return"
    /\ IF exc # NoError
       THEN pc' = "aborted" /\ UNCHANGED <<ret, kwargs>>
       ELSE /\ kwargs' = [kwargs EXCEPT !.long_description = ret]
            /\ ret' = <<>>
            /\ pc' = NextAfter("readme")
    /\ UNCHANGED <<fs, handles, exc, descriptor, log, history>>

----------------------------------------------------------------------------
(* requirements() *)

\* with open("requirements/requirements.txt") as f
RequirementsOpen ==
    /\ pc = "requirements_open"
    /\ log' = Append(log, Entry("open", REQUIREMENTS, RequirementsMode))
    /\ IF OpenError(fs, REQUIREMENTS, RequirementsMode) # NoError
       THEN /\ exc' = OpenError(fs, REQUIREMENTS, RequirementsMode)
            /\ pc' = "aborted"
            /\ UNCHANGED <<fs, handles>>
       ELSE /\ fs' = OpenEffect(fs, REQUIREMENTS, RequirementsMode)
            /\ handles' = handles \cup {REQUIREMENTS}
            /\ pc' = "requirements_read"
            /\ UNCHANGED exc
    /\ UNCHANGED <<ret, kwargs, descriptor, history>>

\* list(f.readlines())
RequirementsRead ==
    /\ pc = "requirements_read"
    /\ log' = Append(log, Entry("read", REQUIREMENTS, RequirementsMode))
    /\ IF ReadError(fs, REQUIREMENTS) # NoError
       THEN exc' = ReadError(fs, REQUIREMENTS) /\ UNCHANGED ret
       ELSE /\ ret' = <<Readlines(Translate(fs[REQUIREMENTS].data))>>
            /\ UNCHANGED exc
    /\ pc' = "requirements_exit"
    /\ UNCHANGED <<fs, handles, kwargs, descriptor, history>>

\* Leaving the with block, normally or by exception: f.__exit__ closes f.
RequirementsExit ==
    /\ pc = "requirements_exit"
    /\ handles' = handles \ {REQUIREMENTS}
    /\ log' = Append(log, Entry("close", REQUIREMENTS, RequirementsMode))
    /\ pc' = "requirements_return"
    /\ UNCHANGED <<fs, exc, ret, kwargs, descriptor, history>>

RequirementsReturnDefault ==
    /\ pc = "requirements_return"
    /\ kwargs' = [kwargs EXCEPT !.install_requires =
                      IF exc # NoError THEN <<<<>>>> ELSE ret]
    /\ ret' = <<>>
    /\ exc' = NoError
    /\ pc' = NextAfter("requirements")
    /\ UNCHANGED <<fs, handles, descriptor, log, history>>

RequirementsReturnRetry ==
    /\ pc = "requirements_return"
    /\ IF exc # NoError
       THEN IF Len(log) < 12
            THEN /\ pc' = "requirements_open"
                 /\ exc' = NoError
                 /\ UNCHANGED <<ret, kwargs>>
            ELSE pc' = "aborted" /\ UNCHANGED <<exc, ret, kwargs>>
       ELSE /\ kwargs' = [kwargs EXCEPT !.install_requires = ret]
            /\ ret' = <<>>
            /\ pc' = NextAfter("requirements")
            /\ UNCHANGED exc
    /\ UNCHANGED <<fs, handles, descriptor, log, history>>

\* requirements() returns to the setup(...) call, or its exception leaves the
\* module body.
RequirementsReturn ==
    /\ pc = "requirements_return"
    /\ IF exc # NoError
       THEN pc' = "aborted" /\ UNCHANGED <<ret, kwargs>>
       ELSE /\ kwargs' = [kwargs EXCEPT !.install_requires = ret]
            /\ ret' = <<>>
            /\ pc' = NextAfter("requirements")
    /\ UNCHANGED <<fs, handles, exc, descriptor, log, history>>

----------------------------------------------------------------------------
(* setup(...) *)

ScriptsReordered ==
    <<"scripts/pylaunchagent", "scripts/pylaunchagent_run",
      "scripts/pylaunchagent_install_venv">>

Scripts ==
    <<"scripts/pylaunchagent", "scripts/pylaunchagent_install_venv",
      "scripts/pylaunchagent_run">>

Classifiers == <<>>

RECURSIVE StripLines(_)
StripLines(ls) ==
    IF ls = <<>> THEN <<>>
    ELSE LET l == Head(ls)
         IN  <<IF l # <<>> /\ l[Len(l)] = LF
               THEN SubSeq(l, 1, Len(l) - 1) ELSE l>> \o StripLines(Tail(ls))

MakeDescriptorStripped(long_description, install_requires) ==
    [name |-> "pylaunchagent",
     version |-> "0.0.1",
     description |-> "Install Python code to macOS LaunchAgents",
     long_description |-> long_description,
     long_description_content_type |-> "text/markdown",
     install_requires |-> StripLines(install_requires),
     url |-> "https://github.com/leonardcser/pylaunchagent",
     author |-> "Leonard C.",
     classifiers |-> Classifiers,
     scripts |-> Scripts]

\* The keyword arguments setup() is called with.
MakeDescriptor(long_description, install_requires) ==
    [name |-> "pylaunchagent",
     version |-> "0.0.1",
     description |-> "Install Python code to macOS LaunchAgents",
     long_description |-> long_description,
     long_description_content_type |-> "text/markdown",
     install_requires |-> install_requires,
     url |-> "https://github.com/leonardcser/pylaunchagent",
     author |-> "Leonard C.",
     classifiers |-> Classifiers,
     scripts |-> Scripts]

\* Every argument is evaluated: setup() is called.
SetupCall ==
    /\ pc = "setup"
    /\ descriptor' = <<MakeDescriptor(kwargs.long_description[1],
                                      kwargs.install_requires[1])>>
    /\ pc' = "built"
    /\ UNCHANGED <<fs, handles, exc, ret, kwargs, log, history>>

\* setup.py is run again, in a fresh process, on the file system the
\* previous run left.
Restart ==
    /\ Terminated
    /\ Len(history) < MaxRuns - 1
    /\ history' = Append(history,
                         [result |-> pc, exc |-> exc, descriptor |-> descriptor])
    /\ pc' = "start"
    /\ handles' = {}
    /\ exc' = NoError
    /\ ret' = <<>>
    /\ kwargs' = NoKwargs
    /\ descriptor' = <<>>
    /\ log' = <<>>
    /\ UNCHANGED fs

Next ==
    \/ ModuleBody
    \/ ReadmeOpen
    \/ ReadmeRead
    \/ ReadmeExit
    \/ ReadmeReturn
    \/ RequirementsOpen
    \/ RequirementsRead
    \/ RequirementsExit
    \/ RequirementsReturn
    \/ SetupCall

\* One run of setup.py.
Spec == Init /\ [][Next]_vars

\* The files of the runs checked for termination: whether a run ends
\* depends on what open() and the read raise, not on the characters read.
InitFair == Init /\ \A p \in Paths : Len(fs[p].data) <= MaxLenFair

\* One run; the interpreter keeps executing until the run ends.
FairSpec == InitFair /\ [][Next]_vars /\ WF_vars(Next)

NextTwice == Next \/ Restart

\* Up to MaxRuns runs of setup.py on the same file system.
SpecTwice == Init /\ [][NextTwice]_vars

----------------------------------------------------------------------------
(* Properties *)

Opens(path) == {i \in 1..Len(log) : log[i].op = "open" /\ log[i].path = path}

Touched(path) == \E i \in 1..Len(log) : log[i].path = path

ReadmeLoaded == kwargs.long_description # <<>>

RequirementsLoaded == kwargs.install_requires # <<>>

\* The positions at which a line of the raw file ends: a "\n", a "\r" that
\* no "\n" follows, or the last character of the file.
LineEnds(raw) ==
    {i \in 1..Len(raw) :
        \/ raw[i] = LF
        \/ raw[i] = CR /\ ~(i < Len(raw) /\ raw[i + 1] = LF)
        \/ i = Len(raw)}

KthLineEnd(raw, k) ==
    CHOOSE e \in LineEnds(raw) : Cardinality({x \in LineEnds(raw) : x <= e}) = k

\* The k-th line of the raw file, terminator included.
RawLine(raw, k) ==
    SubSeq(raw, IF k = 1 THEN 1 ELSE KthLineEnd(raw, k - 1) + 1,
           KthLineEnd(raw, k))

\* A raw line as the text layer delivers it: the characters before the
\* terminator, and "\n" when the line has a terminator.
AsRead(line) ==
    LET n == Len(line)
    IN  IF n >= 2 /\ line[n - 1] = CR /\ line[n] = LF
        THEN SubSeq(line, 1, n - 2) \o <<LF>>
        ELSE IF n >= 1 /\ line[n] = CR
             THEN SubSeq(line, 1, n - 1) \o <<LF>>
        ELSE line

\* C1: for a requirements file of N lines, requirements() returns exactly N
\* strings, the i-th being the i-th line of the file, in file order, with its
\* terminator as read by the text layer; blank lines are entries, and nothing
\* is trimmed, dropped, merged or reordered.
C1_RequirementsLines ==
    RequirementsLoaded =>
        LET raw == fs[REQUIREMENTS].data
            r == kwargs.install_requires[1]
        IN  /\ Len(r) = Cardinality(LineEnds(raw))
            /\ \A k \in 1..Len(r) : r[k] = AsRead(RawLine(raw, k))

C1_Witness ==
    /\ RequirementsLoaded
    /\ fs[REQUIREMENTS].data = <<"a", LF, LF>>
    /\ kwargs.install_requires[1] = << <<"a", LF>>, <<LF>> >>

\* The positions of the raw file that survive newline translation: all but
\* a "\r" that a "\n" follows.
Kept(raw) ==
    {i \in 1..Len(raw) : ~(raw[i] = CR /\ i < Len(raw) /\ raw[i + 1] = LF)}

KthKept(raw, k) ==
    CHOOSE e \in Kept(raw) : Cardinality({x \in Kept(raw) : x <= e}) = k

\* The raw file with "\r\n" and lone "\r" replaced by "\n".
Normalised(raw) ==
    [k \in 1..Cardinality(Kept(raw)) |->
        IF raw[KthKept(raw, k)] = CR THEN LF ELSE raw[KthKept(raw, k)]]

\* C2 as stated: readme() returns the README's contents exactly, character
\* for character, nothing added, removed or translated.
C2_Original ==
    ReadmeLoaded => kwargs.long_description[1] = fs[README].data

\* C2 as amended: readme() returns the README's contents with every "\r\n"
\* and every lone "\r" read as "\n" and nothing else changed; a README that
\* holds no "\r" is returned exactly, trailing newline or not.
C2_ReadmeNormalised ==
    ReadmeLoaded =>
        LET raw == fs[README].data
            r == kwargs.long_description[1]
        IN  /\ r = Normalised(raw)
            /\ (\A i \in 1..Len(raw) : raw[i] # CR) => r = raw

C2_Witness ==
    /\ ReadmeLoaded
    /\ fs[README].data = <<"a", CR, LF>>
    /\ kwargs.long_description[1] = <<"a", LF>>

\* C3: when README.md is absent the run aborts with a file-access error and
\* the requirements file is never opened or read; the first file operation of
\* any run is the open of README.md.
C3_MissingReadmeShortCircuits ==
    /\ log # <<>> => log[1] = Entry("open", README, "r")
    /\ fs[README].status = "absent" =>
          /\ ~Touched(REQUIREMENTS)
          /\ ~RequirementsLoaded
          /\ descriptor = <<>>
          /\ Terminated => pc = "aborted" /\ exc = "FileNotFoundError"

C3_Witness ==
    /\ pc = "aborted"
    /\ fs[README].status = "absent"
    /\ fs[REQUIREMENTS].status = "ok"
    /\ log = <<Entry("open", README, "r")>>

ErrorOf(status) ==
    IF status = "absent" THEN "FileNotFoundError"
    ELSE IF status = "denied" THEN "PermissionError"
    ELSE "UnicodeDecodeError"

\* C4: when either read fails no descriptor is produced, setup() is never
\* called with a partial or defaulted argument, the failed read is not
\* retried, and the run ends with the error of the first failing read itself.
C4_FailureAborts ==
    /\ descriptor # <<>> => \A p \in Paths : fs[p].status = "ok"
    /\ pc = "setup" => \A p \in Paths : fs[p].status = "ok"
    /\ pc = "aborted" =>
          /\ descriptor = <<>>
          /\ exc = IF fs[README].status # "ok"
                   THEN ErrorOf(fs[README].status)
                   ELSE ErrorOf(fs[REQUIREMENTS].status)
    /\ Terminated /\ (\E p \in Paths : fs[p].status # "ok") => pc = "aborted"
    /\ \A p \in Paths : Cardinality(Opens(p)) <= 1

C4_Witness ==
    /\ pc = "aborted"
    /\ fs[README].status = "ok"
    /\ fs[REQUIREMENTS].status = "garbled"
    /\ exc = "UnicodeDecodeError"
    /\ ReadmeLoaded

SameOutcome ==
    Terminated =>
        \A i \in 1..Len(history) :
            history[i] = [result |-> pc, exc |-> exc, descriptor |-> descriptor]

\* C5: runs on the same unchanged files end the same way, with equal
\* descriptors field by field, and no run changes the file system.
C5_Idempotent == []SameOutcome /\ [][fs' = fs]_vars

C5_Witness ==
    /\ Len(history) = 1
    /\ pc = "built"
    /\ history[1].result = "built"
    /\ history[1].descriptor = descriptor
    /\ Len(descriptor[1].install_requires) = 2

\* C6: every built descriptor lists exactly the three scripts
\* pylaunchagent, pylaunchagent_install_venv, pylaunchagent_run, in that
\* order, and no classifiers, whatever the two files hold.
C6_ScriptsFixed ==
    descriptor # <<>> =>
        /\ descriptor[1].scripts =
              <<"scripts/pylaunchagent", "scripts/pylaunchagent_install_venv",
                "scripts/pylaunchagent_run">>
        /\ descriptor[1].classifiers = <<>>

C6_Witness ==
    /\ descriptor # <<>>
    /\ fs[README].data = <<"a", LF>>
    /\ fs[REQUIREMENTS].data = <<LF, "a">>
    /\ Len(descriptor[1].scripts) = 3

RECURSIVE Flatten(_)
Flatten(ls) == IF ls = <<>> THEN <<>> ELSE Head(ls) \o Flatten(Tail(ls))

\* C7: the descriptor's dependency list is the sequence requirements()
\* returned and its long description the string readme() returned; nothing
\* is validated, trimmed or filtered, so the entries put together are the
\* text of the file and a blank or newline-terminated line is an entry.
C7_PassThrough ==
    descriptor # <<>> =>
        /\ descriptor[1].install_requires = kwargs.install_requires[1]
        /\ descriptor[1].long_description = kwargs.long_description[1]
        /\ Flatten(descriptor[1].install_requires)
              = Normalised(fs[REQUIREMENTS].data)

C7_Witness ==
    /\ descriptor # <<>>
    /\ descriptor[1].install_requires = << <<LF>>, <<"a", LF>> >>
    /\ descriptor[1].long_description = <<"a">>

\* C8: a handle is open only between its own open and the end of its own
\* with block, so it is closed before its function returns or raises, at
\* most one is open at a time, and none is open while the other file is read
\* or when setup() is called.
C8_HandlesScoped ==
    /\ Cardinality(handles) <= 1
    /\ README \in handles => pc \in {"readme_read", "readme_exit"}
    /\ REQUIREMENTS \in handles
          => pc \in {"requirements_read", "requirements_exit"}

C8_Witness ==
    /\ pc = "readme_return"
    /\ exc = "UnicodeDecodeError"
    /\ handles = {}
    /\ log[Len(log)] = Entry("close", README, "r")

Phase ==
    IF pc = "aborted" THEN "Aborted"
    ELSE IF descriptor # <<>> THEN "Built"
    ELSE IF ReadmeLoaded /\ RequirementsLoaded THEN "Ready"
    ELSE IF ReadmeLoaded THEN "ReadmeLoaded"
    ELSE IF RequirementsLoaded THEN "RequirementsLoaded"
    ELSE "Uninitialized"

PhaseSteps ==
    {<<"Uninitialized", "ReadmeLoaded">>, <<"ReadmeLoaded", "Ready">>,
     <<"Ready", "Built">>,
     <<"Uninitialized", "Aborted">>, <<"ReadmeLoaded", "Aborted">>}

\* C9: construction goes Uninitialized -> ReadmeLoaded -> Ready -> Built, one
\* state at a time and never back; Built is terminal; the requirements file
\* is not touched before readme() has returned, and setup() is not called
\* before both have.
C9_FixedSequence ==
    [][/\ Phase' = Phase \/ <<Phase, Phase'>> \in PhaseSteps
       /\ Phase = "Built" => UNCHANGED vars
       /\ Touched(REQUIREMENTS)' => ReadmeLoaded'
       /\ pc' \in {"setup", "built"} => ReadmeLoaded' /\ RequirementsLoaded'
      ]_vars

C9_Witness ==
    /\ Phase = "Built"
    /\ pc = "built"
    /\ Len(log) = 6

FileAccessErrors == {"FileNotFoundError", "PermissionError", "UnicodeDecodeError"}

OneOutcome ==
    Terminated =>
        \/ pc = "built" /\ descriptor # <<>> /\ exc = NoError
        \/ pc = "aborted" /\ descriptor = <<>> /\ exc \in FileAccessErrors

OnlyTwoReads ==
    /\ \A i \in 1..Len(log) : log[i].path \in Paths /\ log[i].mode = "r"
    /\ \A p \in Paths : Cardinality(Opens(p)) <= 1

\* C10: every run ends, either built or aborted with a file-access error,
\* having opened each of the two files at most once, read-only, and no other
\* file.
C10_Terminates == <>Terminated /\ []OneOutcome /\ []OnlyTwoReads

C10_Witness ==
    /\ pc = "built"
    /\ Cardinality(Opens(README)) = 1
    /\ Cardinality(Opens(REQUIREMENTS)) = 1

=============================================================================
